---- MODULE Spec2Model ----
(***************************************************************************)
(* lilt: the time-driven transition/progress state machine of              *)
(* src/src/animated.rs (Animated<T, Time>, Animation<Time>, Easing) and    *)
(* the capability traits of src/src/traits.rs.                             *)
(*                                                                         *)
(* f32 values are modelled as extended rationals <<n, d>>: a finite value  *)
(* is the fraction n/d in lowest terms with d > 0, and the three special   *)
(* values of IEEE arithmetic are <<0, 0>> (NaN), <<1, 0>> (+inf) and       *)
(* <<-1, 0>> (-inf).  Rounding and the sign of zero are not modelled.      *)
(***************************************************************************)
EXTENDS Integers, Sequences, FiniteSets, TLC

(***************************************************************************)
(* Bounds of the model.                                                    *)
(***************************************************************************)
\* the clock advances in steps of 250 ms, MaxTick times at most
MaxTick == 3
\* sample times are 0, 250, ..., 250 * MaxSample
MaxSample == 20
\* the domain type T has the values 0 .. MaxValue
MaxValue == 3
\* a caller samples up to 500 * MaxAhead ms ahead of its clock
MaxAhead == 5

\* the longest chain of builder calls on a new Animated
MaxChain == 4

(***************************************************************************)
(* f32 arithmetic.                                                         *)
(***************************************************************************)
NaN == <<0, 0>>
PInf == <<1, 0>>
NInf == <<-1, 0>>

Abs(i) == IF i < 0 THEN -i ELSE i
Sgn(i) == IF i < 0 THEN -1 ELSE IF i > 0 THEN 1 ELSE 0

RECURSIVE Gcd(_, _)
Gcd(a, b) == IF b = 0 THEN a ELSE Gcd(b, a % b)

\* the fraction n/d (d # 0) in lowest terms with a positive denominator
Norm(n, d) ==
  LET g == Gcd(Abs(n), Abs(d))
      s == Sgn(d)
  IN <<(s * n) \div g, (s * d) \div g>>

\* an integer, and a fraction of integers, as f32 values
F(i) == <<i, 1>>
Frac(n, d) == Norm(n, d)

IsNaN(a) == a = NaN
IsFinite(a) == a[2] # 0
IsInf(a) == a[2] = 0 /\ a[1] # 0

FNeg(a) == <<-a[1], a[2]>>

FAdd(a, b) ==
  IF IsNaN(a) \/ IsNaN(b) THEN NaN
  ELSE IF IsInf(a) /\ IsInf(b) THEN (IF a = b THEN a ELSE NaN)
  ELSE IF IsInf(a) THEN a
  ELSE IF IsInf(b) THEN b
  ELSE Norm(a[1] * b[2] + b[1] * a[2], a[2] * b[2])

FSub(a, b) == FAdd(a, FNeg(b))

FMul(a, b) ==
  IF IsNaN(a) \/ IsNaN(b) THEN NaN
  ELSE IF IsInf(a) \/ IsInf(b)
       THEN (IF a[1] = 0 \/ b[1] = 0 THEN NaN ELSE <<Sgn(a[1]) * Sgn(b[1]), 0>>)
  ELSE Norm(a[1] * b[1], a[2] * b[2])

FDiv(a, b) ==
  IF IsNaN(a) \/ IsNaN(b) THEN NaN
  ELSE IF IsInf(a) THEN (IF IsInf(b) THEN NaN
                         ELSE <<a[1] * (IF b[1] < 0 THEN -1 ELSE 1), 0>>)
  ELSE IF IsInf(b) THEN F(0)
  ELSE IF b[1] = 0 THEN (IF a[1] = 0 THEN NaN ELSE <<Sgn(a[1]), 0>>)
  ELSE Norm(a[1] * b[2], a[2] * b[1])

\* the integer quotient of n by d (d > 0) rounded toward zero
TruncDiv(n, d) == IF n >= 0 THEN n \div d ELSE -((-n) \div d)

\* Rust's % on f32 (fmod): the remainder has the sign of the dividend
FRem(a, b) ==
  IF IsNaN(a) \/ IsNaN(b) \/ IsInf(a) THEN NaN
  ELSE IF IsInf(b) THEN a
  ELSE IF b[1] = 0 THEN NaN
  ELSE LET q == FDiv(a, b)
           k == TruncDiv(q[1], q[2])
       IN FSub(a, FMul(F(k), b))

\* comparisons: every comparison with NaN is false
FEq(a, b) == ~IsNaN(a) /\ ~IsNaN(b) /\ a = b
FNe(a, b) == ~FEq(a, b)
FLt(a, b) ==
  /\ ~IsNaN(a)
  /\ ~IsNaN(b)
  /\ a # b
  /\ IF IsInf(a) THEN a = NInf
     ELSE IF IsInf(b) THEN b = PInf
     ELSE a[1] * b[2] < b[1] * a[2]
FLe(a, b) == FLt(a, b) \/ FEq(a, b)
FGe(a, b) == FLe(b, a)
FGt(a, b) == FLt(b, a)

\* f32::max: a NaN operand is ignored
FMax(a, b) ==
  IF IsNaN(a) THEN b
  ELSE IF IsNaN(b) THEN a
  ELSE IF FLt(a, b) THEN b ELSE a

RECURSIVE FPowi(_, _)
FPowi(a, k) == IF k = 0 THEN F(1) ELSE FMul(a, FPowi(a, k - 1))

(***************************************************************************)
(* Easing::value.  The built-in polynomial curves are computed exactly.    *)
(* EaseInOut is -(cos(pi * x) - 1) / 2; its cosine is computed with        *)
(* Bhaskara's rational approximation of the sine, which is exact wherever  *)
(* the cosine of a rational multiple of pi is rational (x = 0, 1/3, 1/2,   *)
(* 2/3, 1), where the f32 computation rounds instead.  A Custom easing is  *)
(* a caller-supplied function: CustomSquare is the |x| x * x of            *)
(* test_custom_easing, CustomFlip is |x| 1 - x (value(0) = 1 and           *)
(* value(1) = 0).                                                          *)
(***************************************************************************)
Half == Frac(1, 2)

\* sin(pi * u) for 0 <= u <= 1
SinPi(u) ==
  LET p == FMul(u, FSub(F(1), u))
  IN FDiv(FMul(F(16), p), FSub(F(5), FMul(F(4), p)))

\* cos(pi * x) = sin(pi * (1/2 - x))
CosPi(x) ==
  LET y == FSub(Half, x)
  IN IF FLt(y, F(0)) THEN FNeg(SinPi(FNeg(y))) ELSE SinPi(y)

\* the shared shape of the EaseInOut{Quad, Cubic, Quart, Quint} arms
EaseInOutPow(x, k, c) ==
  IF FLt(x, Half)
  THEN FMul(F(c), FPowi(x, k))
  ELSE FSub(F(1), FDiv(FPowi(FAdd(FMul(F(-2), x), F(2)), k), F(2)))

EasingValue(easing, x) ==
  CASE easing = "Linear" -> x
    [] easing = "EaseInOut" -> FDiv(FNeg(FSub(CosPi(x), F(1))), F(2))
    [] easing = "EaseInQuad" -> FMul(x, x)
    [] easing = "EaseOutQuad" ->
         FSub(F(1), FMul(FSub(F(1), x), FSub(F(1), x)))
    [] easing = "EaseInOutQuad" -> EaseInOutPow(x, 2, 2)
    [] easing = "EaseInCubic" -> FMul(FMul(x, x), x)
    [] easing = "EaseOutCubic" -> FSub(F(1), FPowi(FSub(F(1), x), 3))
    [] easing = "EaseInOutCubic" -> EaseInOutPow(x, 3, 4)
    [] easing = "EaseInQuart" -> FPowi(x, 4)
    [] easing = "EaseOutQuart" -> FSub(F(1), FPowi(FSub(F(1), x), 4))
    [] easing = "EaseInOutQuart" -> EaseInOutPow(x, 4, 8)
    [] easing = "EaseInQuint" -> FMul(FMul(FMul(FMul(x, x), x), x), x)
    [] easing = "EaseOutQuint" -> FSub(F(1), FPowi(FSub(F(1), x), 5))
    [] easing = "EaseInOutQuint" -> EaseInOutPow(x, 5, 16)
    [] easing = "CustomSquare" -> FMul(x, x)
    [] easing = "CustomFlip" -> FSub(F(1), x)

(***************************************************************************)
(* The capability traits.                                                  *)
(***************************************************************************)
\* AnimationTime for a millisecond clock: the elapsed time between two times
elapsed_since(time, earlier) == F(time - earlier)

\* The domain type T: the values 0 .. MaxValue.  Its FloatRepresentable
\* places them on the axis at 0, 10, 20, 0, 10, ...: value 3 is distinct
\* from value 0 and has the same float_value.
T == 0 .. MaxValue

\* The domain type bool: false and true, kept apart from the values of T
BoolOf(b) == IF b THEN 101 ELSE 100
bool == { BoolOf(FALSE), BoolOf(TRUE) }

\* The domain type f32: the scalar x is kept as f32(x), apart from T and bool
f32(x) == 1000 + x
f32Values == { f32(x) : x \in {-10, 0, 10} }

\* the values of the domain type a value belongs to
ValuesOf(v) ==
  IF v \in f32Values THEN f32Values
  ELSE IF v \in bool THEN bool
  ELSE T

\* FloatRepresentable: an f32 is its own float_value, a bool is 1 or 0
float_value(v) ==
  IF v \in f32Values THEN F(v - f32(0))
  ELSE IF v \in bool THEN (IF v = BoolOf(TRUE) THEN F(1) ELSE F(0))
  ELSE F(10 * (v % 3))

\* Interpolable for f32
interpolated(self, other, ratio) ==
  FAdd(FMul(self, FSub(F(1), ratio)), FMul(other, ratio))

(***************************************************************************)
(* Animation<Time>.                                                        *)
(***************************************************************************)
\* repetitions: u32 is held as repetitions_high * 2^31 + repetitions, with
\* repetitions_high in {0, 1} and repetitions below 2^31, because TLC's
\* integers end at 2^31 - 1.

\* Option<X>: None is the empty sequence and Some(x) the sequence of x alone
None == <<>>
Some(x) == <<x>>
Unwrap(o) == o[1]

\* an Option interpolation that falls back on the side that is present
OptionInterpolatedKeepsPresent(self, other, ratio) ==
  IF self # None /\ other # None
  THEN Some(interpolated(Unwrap(self), Unwrap(other), ratio))
  ELSE IF self # None THEN self ELSE other

\* Interpolable for Option<f32>
OptionInterpolated(self, other, ratio) ==
  IF self # None /\ other # None
  THEN Some(interpolated(Unwrap(self), Unwrap(other), ratio))
  ELSE None

\* the all-zero animation a derived Default would give, placed at the origin
AnimationDerivedDefault(origin) ==
  [ origin |-> origin,
    destination |-> origin,
    delay_ms |-> F(0),
    settings |-> [duration_ms |-> F(0), easing |-> "Linear"],
    asymmetric_settings |-> None,
    repetitions |-> 0,
    repetitions_high |-> 0,
    auto_reverse_repetitions |-> FALSE,
    repeat_forever |-> FALSE,
    transition_time |-> None ]

AnimationDefault(origin) ==
  [ origin |-> origin,
    destination |-> origin,
    delay_ms |-> F(0),
    settings |-> [duration_ms |-> F(100), easing |-> "EaseInOut"],
    asymmetric_settings |-> None,
    repetitions |-> 1,
    repetitions_high |-> 0,
    auto_reverse_repetitions |-> FALSE,
    repeat_forever |-> FALSE,
    transition_time |-> None ]

\* asymmetric_settings.unwrap_or(settings)
Asymmetry(a) ==
  IF a.asymmetric_settings = None THEN a.settings
  ELSE Unwrap(a.asymmetric_settings)

\* (self.repetitions * 2) + 1 leaves the u32 range: 2 * (2^31 + r) + 1 is
\* 2^32 + (2 * r + 1), and below 2^31 the result is at most 2^32 - 1
TrueRepetitionsOverflows(a) ==
  a.auto_reverse_repetitions /\ a.repetitions_high = 1

\* the u32 that total_duration converts to f32; when the multiplication
\* overflows this is the wrapped result, the low 32 bits 2 * r + 1; the
\* configurations set counts of 2^31 and above only together with auto-reverse
true_repetitions(a) ==
  IF a.auto_reverse_repetitions THEN (a.repetitions * 2) + 1 ELSE a.repetitions

\* what evaluating total_duration does in current_progress, which reaches it
\* only with a transition_time: an overflowing u32 multiplication panics in
\* a build with overflow checks and wraps in a build without them
TotalDurationOutcomes(a) ==
  IF a.transition_time # None /\ TrueRepetitionsOverflows(a)
  THEN {"panic", "wrap"}
  ELSE {"none"}

\* a total that counts as many forward legs as reverse legs
TotalDurationEvenLegs(a) ==
  LET tr == true_repetitions(a)
      d == a.settings.duration_ms
      asym == Asymmetry(a).duration_ms
  IN IF tr > 1
     THEN FAdd(FMul(d, FMul(F(tr - (tr % 2)), Half)),
               FMul(asym, FMul(F(tr - (tr % 2)), Half)))
     ELSE IF FLt(a.destination, a.origin)
          THEN FMul(asym, F(tr))
          ELSE FMul(d, F(tr))

total_duration(a) ==
  LET tr == true_repetitions(a)
      d == a.settings.duration_ms
      asym == Asymmetry(a).duration_ms
  IN IF tr > 1
     THEN IF tr % 2 = 0
          THEN FAdd(FMul(d, FMul(F(tr), Half)), FMul(asym, FMul(F(tr), Half)))
          ELSE FAdd(FAdd(FMul(d, FMul(F(tr - (tr % 2)), Half)),
                         FMul(asym, FMul(F(tr - (tr % 2)), Half))),
                    d)
     ELSE IF FLt(a.destination, a.origin)
          THEN FMul(asym, F(tr))
          ELSE FMul(d, F(tr))

\* a selection that hands the instant a forward leg ends to the reverse leg
CurrentSettingsReverseAtLegEnd(a, elapsed) ==
  IF a.auto_reverse_repetitions
  THEN LET asymmetry == Asymmetry(a)
           combined_durations == FAdd(a.settings.duration_ms, asymmetry.duration_ms)
           first_animation ==
             FLt(FSub(FRem(elapsed, combined_durations), a.settings.duration_ms), F(0))
       IN IF first_animation
          THEN [ settings |-> a.settings,
                 elapsed_current |-> FRem(elapsed, combined_durations),
                 auto_reversing |-> FALSE ]
          ELSE [ settings |-> asymmetry,
                 elapsed_current |->
                   FSub(FRem(elapsed, combined_durations), a.settings.duration_ms),
                 auto_reversing |-> TRUE ]
  ELSE IF FLt(a.destination, a.origin)
       THEN [ settings |-> Asymmetry(a), elapsed_current |-> elapsed,
              auto_reversing |-> FALSE ]
       ELSE [ settings |-> a.settings, elapsed_current |-> elapsed,
              auto_reversing |-> FALSE ]

\* a selection that runs the reverse leg with the main settings
CurrentSettingsReverseKeepsMain(a, elapsed) ==
  IF a.auto_reverse_repetitions
  THEN LET asymmetry == Asymmetry(a)
           combined_durations == FAdd(a.settings.duration_ms, asymmetry.duration_ms)
           first_animation ==
             FLe(FSub(FRem(elapsed, combined_durations), a.settings.duration_ms), F(0))
       IN IF first_animation
          THEN [ settings |-> a.settings,
                 elapsed_current |-> FRem(elapsed, combined_durations),
                 auto_reversing |-> FALSE ]
          ELSE [ settings |-> a.settings,
                 elapsed_current |->
                   FSub(FRem(elapsed, combined_durations), a.settings.duration_ms),
                 auto_reversing |-> TRUE ]
  ELSE IF FLt(a.destination, a.origin)
       THEN [ settings |-> Asymmetry(a), elapsed_current |-> elapsed,
              auto_reversing |-> FALSE ]
       ELSE [ settings |-> a.settings, elapsed_current |-> elapsed,
              auto_reversing |-> FALSE ]

\* the settings pair, the elapsed time within the leg and the auto-reverse
\* flag that current_progress selects for an elapsed time
CurrentSettings(a, elapsed) ==
  IF a.auto_reverse_repetitions
  THEN LET asymmetry == Asymmetry(a)
           combined_durations == FAdd(a.settings.duration_ms, asymmetry.duration_ms)
           first_animation ==
             FLe(FSub(FRem(elapsed, combined_durations), a.settings.duration_ms), F(0))
       IN IF first_animation
          THEN [ settings |-> a.settings,
                 elapsed_current |-> FRem(elapsed, combined_durations),
                 auto_reversing |-> FALSE ]
          ELSE [ settings |-> asymmetry,
                 elapsed_current |->
                   FSub(FRem(elapsed, combined_durations), a.settings.duration_ms),
                 auto_reversing |-> TRUE ]
  ELSE IF FLt(a.destination, a.origin)
       THEN [ settings |-> Asymmetry(a), elapsed_current |-> elapsed,
              auto_reversing |-> FALSE ]
       ELSE [ settings |-> a.settings, elapsed_current |-> elapsed,
              auto_reversing |-> FALSE ]

\* an elapsed time that goes negative before the start of the transition
ElapsedUnclamped(a, time) ==
  FSub(elapsed_since(time, Unwrap(a.transition_time)), a.delay_ms)

\* the time elapsed since the start of the transition, less the delay
Elapsed(a, time) ==
  FMax(F(0), FSub(elapsed_since(time, Unwrap(a.transition_time)), a.delay_ms))

\* completion only once the total duration has been exceeded
CompleteStrict(a, time) ==
  IF a.transition_time = None THEN TRUE
  ELSE IF FEq(total_duration(a), F(0)) THEN TRUE
  ELSE ~a.repeat_forever /\ FGt(Elapsed(a, time), total_duration(a))

\* the complete field of the Progress that current_progress returns
Complete(a, time) ==
  IF a.transition_time = None THEN TRUE
  ELSE IF FEq(total_duration(a), F(0)) THEN TRUE
  ELSE ~a.repeat_forever /\ FGe(Elapsed(a, time), total_duration(a))

\* a current_progress whose early return for a total duration of zero reports
\* the start of the transition instead of its end
CurrentProgressZeroAtStart(a, time) ==
  IF a.transition_time = None
  THEN [ linear_unit_progress |-> F(0), eased_unit_progress |-> F(0),
         complete |-> TRUE ]
  ELSE LET elapsed == Elapsed(a, time)
           cur == CurrentSettings(a, elapsed)
           settings == cur.settings
           total == total_duration(a)
       IN IF FEq(total, F(0))
          THEN [ linear_unit_progress |-> F(0),
                 eased_unit_progress |-> EasingValue(settings.easing, F(0)),
                 complete |-> TRUE ]
          ELSE LET complete == Complete(a, time)
                   repeat == FDiv(cur.elapsed_current, settings.duration_ms)
                   progress == IF complete THEN F(1) ELSE FRem(repeat, F(1))
               IN IF cur.auto_reversing /\ ~complete
                  THEN [ linear_unit_progress |-> FSub(F(1), progress),
                         eased_unit_progress |->
                           EasingValue(settings.easing, FSub(F(1), progress)),
                         complete |-> complete ]
                  ELSE [ linear_unit_progress |-> progress,
                         eased_unit_progress |->
                           EasingValue(settings.easing, progress),
                         complete |-> complete ]

\* a current_progress that keeps wrapping the progress after completion
CurrentProgressUnpinned(a, time) ==
  IF a.transition_time = None
  THEN [ linear_unit_progress |-> F(0), eased_unit_progress |-> F(0),
         complete |-> TRUE ]
  ELSE LET elapsed == Elapsed(a, time)
           cur == CurrentSettings(a, elapsed)
           settings == cur.settings
           total == total_duration(a)
       IN IF FEq(total, F(0))
          THEN [ linear_unit_progress |-> F(1),
                 eased_unit_progress |-> EasingValue(settings.easing, F(1)),
                 complete |-> TRUE ]
          ELSE LET complete == Complete(a, time)
                   repeat == FDiv(cur.elapsed_current, settings.duration_ms)
                   progress == FRem(repeat, F(1))
               IN IF cur.auto_reversing /\ ~complete
                  THEN [ linear_unit_progress |-> FSub(F(1), progress),
                         eased_unit_progress |->
                           EasingValue(settings.easing, FSub(F(1), progress)),
                         complete |-> complete ]
                  ELSE [ linear_unit_progress |-> progress,
                         eased_unit_progress |->
                           EasingValue(settings.easing, progress),
                         complete |-> complete ]

\* a current_progress that eases the reverse leg before flipping it,
\* 1 - easing(progress) in place of easing(1 - progress)
CurrentProgressFlipsEased(a, time) ==
  IF a.transition_time = None
  THEN [ linear_unit_progress |-> F(0), eased_unit_progress |-> F(0),
         complete |-> TRUE ]
  ELSE LET elapsed == Elapsed(a, time)
           cur == CurrentSettings(a, elapsed)
           settings == cur.settings
           total == total_duration(a)
       IN IF FEq(total, F(0))
          THEN [ linear_unit_progress |-> F(1),
                 eased_unit_progress |-> EasingValue(settings.easing, F(1)),
                 complete |-> TRUE ]
          ELSE LET complete == Complete(a, time)
                   repeat == FDiv(cur.elapsed_current, settings.duration_ms)
                   progress == IF complete THEN F(1) ELSE FRem(repeat, F(1))
               IN IF cur.auto_reversing /\ ~complete
                  THEN [ linear_unit_progress |-> FSub(F(1), progress),
                         eased_unit_progress |->
                           FSub(F(1), EasingValue(settings.easing, progress)),
                         complete |-> complete ]
                  ELSE [ linear_unit_progress |-> progress,
                         eased_unit_progress |->
                           EasingValue(settings.easing, progress),
                         complete |-> complete ]

current_progress(a, time) ==
  IF a.transition_time = None
  THEN [ linear_unit_progress |-> F(0), eased_unit_progress |-> F(0),
         complete |-> TRUE ]
  ELSE LET elapsed == Elapsed(a, time)
           cur == CurrentSettings(a, elapsed)
           settings == cur.settings
           total == total_duration(a)
       IN IF FEq(total, F(0))
          THEN [ linear_unit_progress |-> F(1),
                 eased_unit_progress |-> EasingValue(settings.easing, F(1)),
                 complete |-> TRUE ]
          ELSE LET complete == Complete(a, time)
                   repeat == FDiv(cur.elapsed_current, settings.duration_ms)
                   progress == IF complete THEN F(1) ELSE FRem(repeat, F(1))
               IN IF cur.auto_reversing /\ ~complete
                  THEN [ linear_unit_progress |-> FSub(F(1), progress),
                         eased_unit_progress |->
                           EasingValue(settings.easing, FSub(F(1), progress)),
                         complete |-> complete ]
                  ELSE [ linear_unit_progress |-> progress,
                         eased_unit_progress |->
                           EasingValue(settings.easing, progress),
                         complete |-> complete ]

linear_unit_progress(a, time) == current_progress(a, time).linear_unit_progress

eased_unit_progress(a, time) == current_progress(a, time).eased_unit_progress

\* a range that loses its sign
ProgressRangeMagnitude(a) ==
  IF FLt(a.destination, a.origin) THEN FSub(a.origin, a.destination)
  ELSE FSub(a.destination, a.origin)

progress_range(a) == FSub(a.destination, a.origin)

AnimationLinearProgress(a, time) ==
  FAdd(a.origin, FMul(linear_unit_progress(a, time), progress_range(a)))

AnimationEasedProgress(a, time) ==
  FAdd(a.origin, FMul(eased_unit_progress(a, time), progress_range(a)))

\* !self.current_progress(time).complete
AnimationInProgress(a, time) == ~Complete(a, time)

\* the arm of Animation::transition a call takes
TransitionBranch(a, destination, time, instantaneous) ==
  IF ~FNe(a.destination, destination) THEN "same_destination"
  ELSE IF instantaneous THEN "instantaneous"
  ELSE IF AnimationInProgress(a, time) THEN "interrupt"
  ELSE "restart"

\* an instantaneous transition that moves the target and leaves the origin
AnimationTransitionInstantKeepsOrigin(a, destination, time, instantaneous) ==
  IF FNe(a.destination, destination)
  THEN IF instantaneous
       THEN [a EXCEPT !.destination = destination]
       ELSE [a EXCEPT
               !.origin = IF AnimationInProgress(a, time)
                          THEN AnimationEasedProgress(a, time)
                          ELSE a.destination,
               !.transition_time = Some(time),
               !.destination = destination]
  ELSE a

\* a transition that leaves the clock of a redirected transition running
AnimationTransitionKeepsClock(a, destination, time, instantaneous) ==
  IF FNe(a.destination, destination)
  THEN IF instantaneous
       THEN [a EXCEPT !.origin = destination, !.destination = destination]
       ELSE IF AnimationInProgress(a, time)
            THEN [a EXCEPT !.origin = AnimationEasedProgress(a, time),
                           !.destination = destination]
            ELSE [a EXCEPT !.origin = a.destination,
                           !.transition_time = Some(time),
                           !.destination = destination]
  ELSE a

\* a transition that re-bases the origin and the clock and keeps the old target
AnimationTransitionKeepsTarget(a, destination, time, instantaneous) ==
  IF FNe(a.destination, destination)
  THEN IF instantaneous
       THEN [a EXCEPT !.origin = destination]
       ELSE [a EXCEPT
               !.origin = IF AnimationInProgress(a, time)
                          THEN AnimationEasedProgress(a, time)
                          ELSE a.destination,
               !.transition_time = Some(time)]
  ELSE a

AnimationTransition(a, destination, time, instantaneous) ==
  IF FNe(a.destination, destination)
  THEN IF instantaneous
       THEN [a EXCEPT !.origin = destination, !.destination = destination]
       ELSE [a EXCEPT
               !.origin = IF AnimationInProgress(a, time)
                          THEN AnimationEasedProgress(a, time)
                          ELSE a.destination,
               !.transition_time = Some(time),
               !.destination = destination]
  ELSE a

(***************************************************************************)
(* Animated<T, Time>.                                                      *)
(***************************************************************************)
AnimatedNew(value) ==
  [ animation |-> AnimationDefault(float_value(value)),
    value |-> value,
    last_value |-> value ]

\* the builder methods
duration(an, duration_ms) ==
  [an EXCEPT !.animation.settings.duration_ms = duration_ms]

easing(an, e) == [an EXCEPT !.animation.settings.easing = e]

delay(an, delay_ms) == [an EXCEPT !.animation.delay_ms = delay_ms]

repeat(an, count) ==
  [an EXCEPT !.animation.repetitions = count, !.animation.repetitions_high = 0]

\* repeat with a count of 2^31 + low
RepeatHigh(an, low) ==
  [an EXCEPT !.animation.repetitions = low, !.animation.repetitions_high = 1]

repeat_forever(an) == [an EXCEPT !.animation.repeat_forever = TRUE]

auto_reverse(an) == [an EXCEPT !.animation.auto_reverse_repetitions = TRUE]

\* an asymmetric_duration that takes the easing from the main settings even
\* when asymmetric settings exist
AsymmetricDurationFromMain(an, duration_ms) ==
  [an EXCEPT !.animation.asymmetric_settings =
     Some([ duration_ms |-> duration_ms,
            easing |-> an.animation.settings.easing ])]

asymmetric_duration(an, duration_ms) ==
  [an EXCEPT !.animation.asymmetric_settings =
     Some([ duration_ms |-> duration_ms,
            easing |-> IF an.animation.asymmetric_settings = None
                       THEN an.animation.settings.easing
                       ELSE Unwrap(an.animation.asymmetric_settings).easing ])]

asymmetric_easing(an, e) ==
  [an EXCEPT !.animation.asymmetric_settings =
     Some([ duration_ms |-> IF an.animation.asymmetric_settings = None
                            THEN an.animation.settings.duration_ms
                            ELSE Unwrap(an.animation.asymmetric_settings).duration_ms,
            easing |-> e ])]

\* a transition without the guard on the requested value
AnimatedTransitionUnguarded(an, new_value, at) ==
  [an EXCEPT
     !.last_value = an.value,
     !.value = new_value,
     !.animation = AnimationTransition(an.animation, float_value(new_value),
                                       at, FALSE)]

AnimatedTransition(an, new_value, at) ==
  IF an.value # new_value
  THEN [an EXCEPT
          !.last_value = an.value,
          !.value = new_value,
          !.animation = AnimationTransition(an.animation, float_value(new_value),
                                            at, FALSE)]
  ELSE an

transition_instantaneous(an, new_value, at) ==
  IF an.value # new_value
  THEN [an EXCEPT
          !.last_value = an.value,
          !.value = new_value,
          !.animation = AnimationTransition(an.animation, float_value(new_value),
                                            at, TRUE)]
  ELSE an

\* an auto_start that starts on a newly constructed Animated, without the
\* settings made before it
AutoStartOnNew(an, new_value, at) ==
  AnimatedTransition(AnimatedNew(an.value), new_value, at)

auto_start(an, new_value, at) == AnimatedTransition(an, new_value, at)

in_progress(an, time) == AnimationInProgress(an.animation, time)

\* an animate that interpolates from the previous value, not from the origin
\* an interruption left
AnimateFromLastValue(an, map, time) ==
  interpolated(map[an.last_value], map[an.value],
               eased_unit_progress(an.animation, time))

\* animate with the map given as a function from the domain type to f32
animate(an, map, time) ==
  LET interrupted_range ==
        FSub(float_value(an.value), float_value(an.last_value))
      unit_interrupt_value ==
        IF FEq(interrupted_range, F(0)) THEN F(0)
        ELSE FDiv(FSub(an.animation.origin, float_value(an.last_value)),
                  interrupted_range)
      interrupt_interpolable ==
        interpolated(map[an.last_value], map[an.value], unit_interrupt_value)
  IN interpolated(interrupt_interpolable, map[an.value],
                  eased_unit_progress(an.animation, time))

animate_if_eq(an, value, equal, default, time) ==
  animate(an, [v \in ValuesOf(an.value) |-> IF v = value THEN equal ELSE default],
          time)

\* only on Animated<bool, Time>
animate_bool(an, false_value, true_value, time) ==
  animate(an, [b \in bool |-> IF b = BoolOf(TRUE) THEN true_value ELSE false_value],
          time)

linear_progress(an, time) == AnimationLinearProgress(an.animation, time)

eased_progress(an, time) == AnimationEasedProgress(an.animation, time)

\* a sampling call that settles a transition it finds complete
SampledSettling(an, time) ==
  IF an.animation.transition_time # None /\ ~in_progress(an, time)
  THEN [an EXCEPT !.animation.origin = an.animation.destination,
                  !.animation.transition_time = None]
  ELSE an

\* the Animated after in_progress, animate, animate_if_eq or animate_bool has
\* returned: they take &self, and no field has interior mutability
Sampled(an, time) == an

(***************************************************************************)
(* The state machine: one Animated<T, Time> owned by a caller that holds   *)
(* a monotonic millisecond clock.                                          *)
(***************************************************************************)
VARIABLES
  anim,   \* the Animated<T, Time>
  now,    \* the caller's clock, in ms
  op      \* the last call made and the arm of Animation::transition it took

vars == <<anim, now, op>>

\* The builder chains an Animated is constructed with.
Linear1000(an) == easing(duration(an, F(1000)), "Linear")

\* one play per transition: no repetition, no auto-reverse
ConfigureSingle(an) ==
  { an,
    Linear1000(an),
    delay(Linear1000(an), F(500)),
    delay(easing(duration(an, F(500)), "EaseInQuad"), F(250)),
    asymmetric_easing(asymmetric_duration(Linear1000(an), F(500)), "EaseInQuad") }

\* auto-reversing repetitions
ConfigureAutoReverse(an) ==
  { auto_reverse(repeat(Linear1000(an), 1)),
    auto_reverse(easing(duration(an, F(500)), "EaseInOut")),
    repeat(auto_reverse(asymmetric_easing(asymmetric_duration(Linear1000(an), F(500)),
                                          "EaseInQuad")), 2),
    auto_reverse(asymmetric_duration(easing(duration(an, F(0)), "Linear"), F(1000))) }

\* a cross-section of the settings
Configure(an) ==
  { an,
    Linear1000(an),
    delay(easing(duration(an, F(500)), "EaseInQuad"), F(250)),
    asymmetric_easing(asymmetric_duration(Linear1000(an), F(500)), "EaseInQuad"),
    auto_reverse(asymmetric_duration(easing(duration(an, F(0)), "Linear"), F(1000))) }

\* zero durations
ConfigureTiming(an) ==
  { duration(an, F(0)),
    easing(duration(an, F(0)), "Linear"),
    delay(duration(an, F(0)), F(500)),
    delay(Linear1000(an), F(500)) }

\* repetitions without auto-reverse and endless repetition
ConfigureRepeat(an) ==
  { repeat(Linear1000(an), 1),
    repeat(Linear1000(an), 2),
    repeat(easing(duration(an, F(500)), "EaseInQuad"), 3),
    repeat(asymmetric_easing(asymmetric_duration(Linear1000(an), F(500)),
                             "EaseInQuad"), 2),
    repeat_forever(Linear1000(an)),
    repeat_forever(delay(asymmetric_duration(Linear1000(an), F(500)), F(250))),
    repeat_forever(repeat(Linear1000(an), 0)) }

\* the settings the sampling calls are exercised with
ConfigureSampling(an) ==
  { an,
    asymmetric_duration(Linear1000(an), F(500)),
    auto_reverse(repeat(asymmetric_easing(asymmetric_duration(Linear1000(an), F(500)),
                                          "EaseInQuad"), 1)) }

\* repetition counts on both sides of 2^31 under auto-reverse
ConfigureOverflow(an) ==
  { auto_reverse(repeat(Linear1000(an), 1)),
    auto_reverse(RepeatHigh(Linear1000(an), 0)),
    auto_reverse(RepeatHigh(delay(Linear1000(an), F(250)), 1)) }

\* repetitions with and without auto-reverse, every duration positive
ConfigureCycle(an) ==
  { auto_reverse(repeat(Linear1000(an), 1)),
    auto_reverse(easing(duration(an, F(500)), "EaseInOut")),
    repeat(auto_reverse(asymmetric_easing(asymmetric_duration(Linear1000(an), F(500)),
                                          "EaseInQuad")), 2),
    delay(auto_reverse(repeat(easing(duration(an, F(500)), "Linear"), 1)), F(250)),
    repeat(easing(duration(an, F(500)), "EaseInQuad"), 2) }

\* Easing::Custom(|x| x * x) and Easing::Custom(|x| 1.0 - x)
ConfigureCustom(an) ==
  { easing(duration(an, F(1000)), "CustomSquare"),
    asymmetric_easing(asymmetric_duration(easing(duration(an, F(1000)), "CustomFlip"),
                                          F(500)), "CustomSquare"),
    auto_reverse(repeat(asymmetric_easing(asymmetric_duration(
                          easing(duration(an, F(500)), "EaseInQuad"), F(1000)),
                          "CustomSquare"), 1)) }

Start == /\ now = 0
         /\ op = [call |-> "new", arm |-> "none"]

Init == anim \in UNION { Configure(AnimatedNew(v)) : v \in T } /\ Start

InitLinear == anim \in { Linear1000(AnimatedNew(v)) : v \in T } /\ Start

InitSingle == anim \in UNION { ConfigureSingle(AnimatedNew(v)) : v \in T } /\ Start

InitAutoReverse ==
  anim \in UNION { ConfigureAutoReverse(AnimatedNew(v)) : v \in T } /\ Start

InitTiming == anim \in UNION { ConfigureTiming(AnimatedNew(v)) : v \in T } /\ Start

\* Animated<f32, Time>
InitCustom ==
  anim \in UNION { ConfigureCustom(AnimatedNew(v)) : v \in f32Values } /\ Start

\* Animated<bool, Time>
InitCycle ==
  anim \in UNION { ConfigureCycle(AnimatedNew(v)) : v \in bool } /\ Start

InitRepeat == anim \in UNION { ConfigureRepeat(AnimatedNew(v)) : v \in T } /\ Start

\* Animated<f32, Time> and Animated<bool, Time>
InitSampling ==
  anim \in UNION { ConfigureSampling(AnimatedNew(v)) : v \in f32Values \cup bool }
    /\ Start

\* a call has panicked: the caller's thread has unwound and makes no more calls
Panicked == op.arm = "panic"

\* Animated::transition(new_value, now); Animation::transition asks
\* in_progress, and so total_duration, when the destination changes
Transition(new_value) ==
  /\ ~Panicked
  /\ \E outcome \in
         IF anim.value # new_value
              /\ FNe(anim.animation.destination, float_value(new_value))
         THEN TotalDurationOutcomes(anim.animation)
         ELSE {"none"} :
       IF outcome = "panic"
       THEN /\ anim' = [anim EXCEPT !.last_value = anim.value, !.value = new_value]
            /\ op' = [call |-> "transition", arm |-> "panic"]
       ELSE /\ anim' = AnimatedTransition(anim, new_value, now)
            /\ op' = [ call |-> "transition",
                       arm |-> IF anim.value = new_value THEN "same_value"
                               ELSE TransitionBranch(anim.animation,
                                                     float_value(new_value),
                                                     now, FALSE) ]
  /\ UNCHANGED now

\* Animated::transition_instantaneous(new_value, now)
TransitionInstantaneous(new_value) ==
  /\ ~Panicked
  /\ anim' = transition_instantaneous(anim, new_value, now)
  /\ op' = [ call |-> "transition_instantaneous",
             arm |-> IF anim.value = new_value THEN "same_value"
                     ELSE TransitionBranch(anim.animation, float_value(new_value),
                                           now, TRUE) ]
  /\ UNCHANGED now

\* the clock advances
Tick ==
  /\ ~Panicked
  /\ now < 250 * MaxTick
  /\ now' = now + 250
  /\ op' = [call |-> "tick", arm |-> "none"]
  /\ UNCHANGED anim

\* the times a caller samples at: the present and a time ahead
SampleAt == { now, now + 1000 }

\* Animated::in_progress(time)
SampleInProgress(time) ==
  /\ ~Panicked
  /\ anim' = Sampled(anim, time)
  /\ \E outcome \in TotalDurationOutcomes(anim.animation) :
       op' = [call |-> "sample", arm |-> outcome]
  /\ UNCHANGED now

\* Animated::animate(map, time)
SampleAnimate(time) ==
  /\ ~Panicked
  /\ anim' = Sampled(anim, time)
  /\ \E outcome \in TotalDurationOutcomes(anim.animation) :
       op' = [call |-> "sample", arm |-> outcome]
  /\ UNCHANGED now

\* Animated::animate_if_eq(value, equal, default, time)
SampleAnimateIfEq(time) ==
  /\ ~Panicked
  /\ anim' = Sampled(anim, time)
  /\ \E outcome \in TotalDurationOutcomes(anim.animation) :
       op' = [call |-> "sample", arm |-> outcome]
  /\ UNCHANGED now

\* Animated<bool, Time>::animate_bool(false_value, true_value, time)
SampleAnimateBool(time) ==
  /\ ~Panicked
  /\ anim.value \in bool
  /\ anim' = Sampled(anim, time)
  /\ \E outcome \in TotalDurationOutcomes(anim.animation) :
       op' = [call |-> "sample", arm |-> outcome]
  /\ UNCHANGED now

Next ==
  \/ \E v \in ValuesOf(anim.value) : Transition(v)
  \/ \E v \in ValuesOf(anim.value) : TransitionInstantaneous(v)
  \/ Tick

Spec == Init /\ [][Next]_vars

SpecLinear == InitLinear /\ [][Next]_vars

SpecSingle == InitSingle /\ [][Next]_vars

SpecAutoReverse == InitAutoReverse /\ [][Next]_vars

SpecTiming == InitTiming /\ [][Next]_vars

SpecRepeat == InitRepeat /\ [][Next]_vars

SpecCustom == InitCustom /\ [][Next]_vars

SpecCycle == InitCycle /\ [][Next]_vars

InitOverflow ==
  anim \in UNION { ConfigureOverflow(AnimatedNew(v)) : v \in f32Values \cup bool }
    /\ Start

\* the Option<f32> values and the ratios interpolated is called with
OptionValues == {None} \cup { Some(F(x)) : x \in {-10, 0, 10, 25} }

Ratios == { F(-1), F(0), Frac(1, 4), Half, Frac(3, 4), F(1), F(2), NaN }

InitOption == anim = AnimatedNew(0) /\ Start

\* self.interpolated(other, ratio) on Option<f32>
Interpolate(self, other, ratio) ==
  /\ op' = [ call |-> "interpolated", arm |-> "none", self |-> self,
             other |-> other, ratio |-> ratio,
             result |-> OptionInterpolated(self, other, ratio) ]
  /\ UNCHANGED <<anim, now>>

NextOption ==
  \E self \in OptionValues, other \in OptionValues, ratio \in Ratios :
    Interpolate(self, other, ratio)

SpecOption == InitOption /\ [][NextOption]_vars

\* transitions, the clock and the sampling calls
NextSampling ==
  \/ Next
  \/ \E time \in SampleAt : SampleInProgress(time)
  \/ \E time \in SampleAt : SampleAnimate(time)
  \/ \E time \in SampleAt : SampleAnimateIfEq(time)
  \/ \E time \in SampleAt : SampleAnimateBool(time)

SpecSampling == InitSampling /\ [][NextSampling]_vars

SpecOverflow == InitOverflow /\ [][NextSampling]_vars

\* the times at which the animation is sampled
SampleTimes == { 250 * k : k \in 0 .. MaxSample }

(***************************************************************************)
(* The claims.                                                             *)
(***************************************************************************)

\* every easing the animation is configured with starts at 0
EasingsStartAtZero(a) ==
  /\ FEq(EasingValue(a.settings.easing, F(0)), F(0))
  /\ FEq(EasingValue(Asymmetry(a).easing, F(0)), F(0))

\* C1: when Animated::transition redirects a transition that is in progress
\* at time t, the new origin is the eased progress sampled at t before the
\* call, and the eased progress sampled at t after the call equals it (no
\* jump), for every easing with value(0) = 0 and a non-zero total duration.
C1_InterruptContinuity ==
  [][ ( /\ op'.call = "transition"
        /\ op'.arm = "interrupt"
        /\ EasingsStartAtZero(anim'.animation)
        /\ FNe(total_duration(anim'.animation), F(0)) )
        => /\ anim'.animation.origin = eased_progress(anim, now)
           /\ FEq(eased_progress(anim', now), eased_progress(anim, now)) ]_vars

\* the animation of test_interruption: 0 -> 10 over 1000 ms, linear, no
\* delay, started at t = 0
ZeroToTenAtZero(an) ==
  an.animation = [ Linear1000(AnimatedNew(0)).animation EXCEPT
                     !.destination = F(10), !.transition_time = Some(0) ]

\* C2: an interruption at time t re-bases the clock to t, and the new leg
\* runs for the full delay and the full configured duration whatever the
\* distance left: it is in progress exactly while less than delay + total
\* duration has elapsed since t.  With linear easing, duration 1000 and no
\* delay, 0 -> 10 started at 0 and redirected to 20 at 500 samples 12.5 at
\* 1000 and 20 at 1500, in progress before 1500 and not from 1500 on.
C2_InterruptRestartsClock ==
  /\ [] ( (op.call = "transition" /\ op.arm = "interrupt")
            => /\ anim.animation.transition_time = Some(now)
               /\ \A t \in SampleTimes :
                    t >= now =>
                      ( in_progress(anim, t)
                          <=> FLt(elapsed_since(t, now),
                                  FAdd(anim.animation.delay_ms,
                                       total_duration(anim.animation))) ) )
  /\ [][ ( /\ op'.call = "transition"
           /\ ZeroToTenAtZero(anim)
           /\ now = 500
           /\ FEq(float_value(anim'.value), F(20)) )
           => /\ op'.arm = "interrupt"
              /\ FEq(eased_progress(anim', 1000), Frac(25, 2))
              /\ FEq(linear_progress(anim', 1000), Frac(25, 2))
              /\ FEq(eased_progress(anim', 1500), F(20))
              /\ \A t \in SampleTimes :
                   t >= 500 => (in_progress(anim', t) <=> t < 1500) ]_vars

\* C2 witness: 0 -> 10 started at 0 was redirected to 20 at 500, from 5
C2_Witness ==
  /\ op.call = "transition"
  /\ op.arm = "interrupt"
  /\ now = 500
  /\ anim.animation = [ Linear1000(AnimatedNew(0)).animation EXCEPT
                          !.origin = F(5), !.destination = F(20),
                          !.transition_time = Some(500) ]

\* a timed transition has just been started by Animated::transition
TimedTransitionStarted ==
  op.call = "transition" /\ op.arm \in {"interrupt", "restart"}

\* the settings pair that applies to the direction of a single-play transition
DirectionSettings(a) == CurrentSettings(a, F(0)).settings

\* C3: for a single-play transition (one repetition, no auto-reverse, no
\* repeat-forever, positive duration, easing with value(1) = 1) started at
\* s, a sample at a time t with t - s >= delay + duration is exactly the
\* destination and is not in progress, and every sample with
\* t - s < delay + duration is in progress.  The duration is that of the
\* settings that apply to the direction of the transition.
C3_SinglePlayCompletion ==
  LET a == anim.animation
      d == DirectionSettings(a).duration_ms
  IN ( /\ TimedTransitionStarted
       /\ a.repetitions = 1
       /\ ~a.auto_reverse_repetitions
       /\ ~a.repeat_forever
       /\ FGt(d, F(0))
       /\ FEq(EasingValue(DirectionSettings(a).easing, F(1)), F(1)) )
       => \A t \in SampleTimes :
            IF FGe(elapsed_since(t, now), FAdd(a.delay_ms, d))
            THEN /\ ~in_progress(anim, t)
                 /\ FEq(eased_progress(anim, t), a.destination)
                 /\ FEq(linear_progress(anim, t), a.destination)
            ELSE in_progress(anim, t)

\* C3 witness: a delayed single-play transition toward a smaller value has
\* been started
C3_Witness ==
  /\ TimedTransitionStarted
  /\ anim.animation.repetitions = 1
  /\ FGt(anim.animation.delay_ms, F(0))
  /\ FLt(anim.animation.destination, anim.animation.origin)
  /\ in_progress(anim, now + 250)
  /\ ~in_progress(anim, 250 * MaxSample)

\* C4: Animated::transition(x, t) with x equal to the currently requested
\* value changes nothing: value, last_value, origin, destination, the start
\* time and the settings stay as they are, so every sample taken afterwards
\* is the sample the animation would have returned without the call.
C4_SameValueIsNoOp ==
  [][ (op'.call = "transition" /\ op'.arm = "same_value")
        => /\ anim' = anim
           /\ current_progress(anim'.animation, now')
                = current_progress(anim.animation, now) ]_vars

\* C4 witness: the requested value was requested again while its transition
\* was under way, some time after it started
C4_Witness ==
  /\ op.call = "transition"
  /\ op.arm = "same_value"
  /\ anim.value # anim.last_value
  /\ anim.animation.transition_time # None
  /\ Unwrap(anim.animation.transition_time) < now
  /\ in_progress(anim, now)

\* C7: after any sequence of transition and transition_instantaneous calls
\* the float_value of the wrapped value is the state machine's destination.
C7_ValueIsDestination ==
  FEq(float_value(anim.value), anim.animation.destination)

\* C7 witness: a timed transition under way was redirected to another target
C7_Witness ==
  /\ op.call = "transition"
  /\ op.arm = "interrupt"
  /\ FNe(float_value(anim.value), float_value(anim.last_value))
  /\ FEq(float_value(anim.value), anim.animation.destination)

\* transition_instantaneous has just changed the wrapped value
InstantaneousChangedValue ==
  op.call = "transition_instantaneous" /\ op.arm # "same_value"

\* C5: after transition_instantaneous(v, t) with v different from the
\* current value, the linear and the eased progress are v.float_value() at
\* every sample time from t on, whether or not a timed transition was under
\* way.
C5_InstantaneousCollapses ==
  InstantaneousChangedValue
    => \A t \in SampleTimes :
         t >= now =>
           /\ FEq(linear_progress(anim, t), float_value(anim.value))
           /\ FEq(eased_progress(anim, t), float_value(anim.value))

\* C6: after a transition_instantaneous that changes the value, in_progress
\* is false at every time from the call on.
C6_InstantaneousClears ==
  InstantaneousChangedValue
    => \A t \in SampleTimes : t >= now => ~in_progress(anim, t)

\* C8 as claimed: whenever no transition is in progress at the sample time,
\* the float_value of the wrapped value is the stored origin.
C8_SettledAtOrigin ==
  \A t \in SampleTimes :
    ~in_progress(anim, t)
      => FEq(float_value(anim.value), anim.animation.origin)

\* C8 as amended: the float_value of the wrapped value is the stored origin
\* while no timed transition has been started and right after an
\* instantaneous transition to another destination; whenever no transition
\* is in progress it is the stored destination.  A timed transition that
\* has run to completion leaves the stored origin where it was.
C8_SettledAtDestination ==
  /\ (anim.animation.transition_time = None \/ op.arm = "instantaneous")
       => FEq(float_value(anim.value), anim.animation.origin)
  /\ \A t \in SampleTimes :
       ~in_progress(anim, t)
         => FEq(float_value(anim.value), anim.animation.destination)

\* C8 witness: a timed transition between two different scalars has run to
\* completion, so the animation is settled away from the stored origin
C8_Witness ==
  /\ anim.animation.transition_time # None
  /\ op.call = "tick"
  /\ ~in_progress(anim, now)
  /\ FNe(anim.animation.origin, anim.animation.destination)
  /\ FEq(float_value(anim.value), anim.animation.destination)

\* the animation of C9: 0 -> 10 started at t = 0 with duration 1000, linear
\* easing, repeat(1) and auto_reverse()
AutoReverseZeroToTen ==
  /\ TimedTransitionStarted
  /\ now = 0
  /\ anim.animation =
       [ auto_reverse(repeat(Linear1000(AnimatedNew(0)), 1)).animation EXCEPT
           !.destination = F(10), !.transition_time = Some(0) ]

C10_AutoReverseLegs ==
  LET a == anim.animation
      n == a.repetitions
      total == FAdd(FMul(F(n + 1), a.settings.duration_ms),
                    FMul(F(n), Asymmetry(a).duration_ms))
  IN ( /\ TimedTransitionStarted
       /\ a.auto_reverse_repetitions
       /\ ~a.repeat_forever
       /\ n >= 1 )
       => \A t \in SampleTimes :
            t >= now =>
              /\ in_progress(anim, t) <=> FLt(Elapsed(a, t), total)
              /\ ~in_progress(anim, t)
                   => FEq(linear_progress(anim, t), a.destination)

\* a timed transition without auto-reverse and without endless repetition
\* has been started, and the settings of its direction have a positive duration
PlainRepeatStarted ==
  /\ TimedTransitionStarted
  /\ ~anim.animation.auto_reverse_repetitions
  /\ ~anim.animation.repeat_forever
  /\ FGt(DirectionSettings(anim.animation).duration_ms, F(0))

\* C11: with repeat(N), N >= 1, and no auto-reverse a transition plays N
\* times: each play lasts the duration d of the settings of the transition's
\* direction, it is in progress exactly while the time elapsed after the
\* delay is less than N * d, and from then on the sample is the destination.
C11_RepeatPlaysNTimes ==
  LET a == anim.animation
      d == DirectionSettings(a).duration_ms
      whole == FMul(F(a.repetitions), d)
  IN (PlainRepeatStarted /\ a.repetitions >= 1)
       => \A t \in SampleTimes :
            t >= now =>
              /\ in_progress(anim, t) <=> FLt(Elapsed(a, t), whole)
              /\ FLt(Elapsed(a, t), whole)
                   => FEq(linear_unit_progress(a, t),
                          FDiv(FRem(Elapsed(a, t), d), d))
              /\ FGe(Elapsed(a, t), whole)
                   => /\ FEq(linear_progress(anim, t), a.destination)
                      /\ FEq(eased_progress(anim, t), a.destination)

\* C12: with repeat(1), no auto-reverse and duration d, a transition is in
\* progress until the time elapsed after the delay reaches 2 * d.
C12_RepeatOnePlaysTwice ==
  LET a == anim.animation
      d == DirectionSettings(a).duration_ms
  IN (PlainRepeatStarted /\ a.repetitions = 1)
       => \A t \in SampleTimes :
            t >= now =>
              (in_progress(anim, t) <=> FLt(Elapsed(a, t), FMul(F(2), d)))

\* the asymmetric pair is the one current_progress applies at time t
AppliesAsymmetric(a, t) ==
  CurrentSettings(a, Elapsed(a, t)).settings = Unwrap(a.asymmetric_settings)

\* the scalar is moving toward a smaller value at time t
MovesTowardSmaller(an, t) ==
  FLt(linear_progress(an, t + 125), linear_progress(an, t))

\* the scalar is moving toward a larger value at time t
MovesTowardLarger(an, t) ==
  FGt(linear_progress(an, t + 125), linear_progress(an, t))

\* C13: with asymmetric settings configured (different from the main pair,
\* all durations positive), at every sample time at which the transition is
\* in progress and the scalar moves, the asymmetric pair is the one applied
\* if and only if the scalar moves toward a smaller value.
C13_AsymmetricIffTowardSmaller ==
  LET a == anim.animation
  IN ( /\ TimedTransitionStarted
       /\ a.asymmetric_settings # None
       /\ Asymmetry(a) # a.settings
       /\ FGt(a.settings.duration_ms, F(0))
       /\ FGt(Asymmetry(a).duration_ms, F(0)) )
       => \A t \in SampleTimes :
            (t >= now /\ in_progress(anim, t))
              => /\ MovesTowardSmaller(anim, t) => AppliesAsymmetric(a, t)
                 /\ MovesTowardLarger(anim, t) => ~AppliesAsymmetric(a, t)

\* duration 0 and every other setting as Animation::default leaves it
ZeroDurationDefault(a) ==
  /\ a.settings = [duration_ms |-> F(0), easing |-> "EaseInOut"]
  /\ a.asymmetric_settings = None
  /\ FEq(a.delay_ms, F(0))
  /\ a.repetitions = 1
  /\ ~a.auto_reverse_repetitions
  /\ ~a.repeat_forever

\* C14: with duration 0 and otherwise default settings, after a transition
\* to another value at time t the linear and the eased progress sampled at t
\* and at every later time are the float_value of the new value, and
\* in_progress is false.
C14_ZeroDuration ==
  ( /\ ZeroDurationDefault(anim.animation)
    /\ op.call = "transition"
    /\ op.arm # "same_value" )
    => \A t \in SampleTimes :
         t >= now =>
           /\ FEq(linear_progress(anim, t), float_value(anim.value))
           /\ FEq(eased_progress(anim, t), float_value(anim.value))
           /\ ~in_progress(anim, t)

\* C14 witness: transition(10, 0) on a zero-duration animation settled at 0
C14_Witness ==
  /\ ZeroDurationDefault(anim.animation)
  /\ op = [call |-> "transition", arm |-> "restart"]
  /\ now = 0
  /\ anim.animation.transition_time = Some(0)
  /\ FEq(float_value(anim.last_value), F(0))
  /\ FEq(float_value(anim.value), F(10))
  /\ FEq(anim.animation.origin, F(0))

\* the animation as an undelayed transition started when the delay is over
\* (the delays configured are whole milliseconds)
UndelayedFrom(a) ==
  [a EXCEPT !.delay_ms = F(0),
            !.transition_time = Some(Unwrap(a.transition_time) + a.delay_ms[1])]

\* C15: with a delay d > 0 (and no endless repetition) a transition started
\* at s is in progress and samples the origin at every time up to s + d, from
\* s + d on it samples what an undelayed transition started at s + d samples,
\* and it is in progress exactly before s + d + total duration.
C15_DelayGating ==
  LET a == anim.animation
      d == a.delay_ms
  IN (TimedTransitionStarted /\ FGt(d, F(0)) /\ ~a.repeat_forever)
       => \A t \in SampleTimes :
            t >= now =>
              /\ FLe(F(t - now), d)
                   => /\ in_progress(anim, t)
                      /\ FEq(linear_progress(anim, t), a.origin)
                      /\ FEq(eased_progress(anim, t), a.origin)
              /\ FGe(F(t - now), d)
                   => current_progress(a, t) = current_progress(UndelayedFrom(a), t)
              /\ in_progress(anim, t)
                   <=> FLt(F(t - now), FAdd(d, total_duration(a)))

\* C16: with repeat_forever(), no auto-reverse and a positive duration d of
\* the settings of the transition's direction, a started transition is in
\* progress at every time from its start on, its linear unit progress is
\* ((time elapsed after the delay) mod d) / d, and the sample is the origin
\* whenever the elapsed time is a multiple of d.
C16_RepeatForever ==
  LET a == anim.animation
      d == DirectionSettings(a).duration_ms
  IN ( /\ TimedTransitionStarted
       /\ a.repeat_forever
       /\ ~a.auto_reverse_repetitions
       /\ FGt(d, F(0)) )
       => \A t \in SampleTimes :
            t >= now =>
              /\ in_progress(anim, t)
              /\ FEq(linear_unit_progress(a, t), FDiv(FRem(Elapsed(a, t), d), d))
              /\ FEq(FRem(Elapsed(a, t), d), F(0))
                   => FEq(linear_progress(anim, t), a.origin)

\* a single-play transition without delay has been started, and the settings
\* of its direction are linear with a positive duration
SinglePlayLinearStarted ==
  LET a == anim.animation
  IN /\ TimedTransitionStarted
     /\ a.repetitions = 1
     /\ ~a.auto_reverse_repetitions
     /\ ~a.repeat_forever
     /\ FEq(a.delay_ms, F(0))
     /\ DirectionSettings(a).easing = "Linear"
     /\ FGt(DirectionSettings(a).duration_ms, F(0))

\* C17: for a single-play linear transition from origin o to destination d
\* of positive duration D started at s with no delay, the linear and the
\* eased progress sampled at s + f * D are o + f * (d - o) for every fraction
\* 0 <= f < 1, whether d is above or below o and for negative scalars.
C17_LinearInterpolation ==
  LET a == anim.animation
      D == DirectionSettings(a).duration_ms
  IN SinglePlayLinearStarted
       => \A t \in SampleTimes :
            (t >= now /\ FLt(F(t - now), D))
              => LET f == FDiv(F(t - now), D)
                     expected == FAdd(a.origin, FMul(f, FSub(a.destination, a.origin)))
                 IN /\ FEq(linear_progress(anim, t), expected)
                    /\ FEq(eased_progress(anim, t), expected)

\* C17 witness: a linear transition from a positive scalar was redirected in
\* flight toward a negative one
C17_Witness ==
  /\ SinglePlayLinearStarted
  /\ op.arm = "interrupt"
  /\ FLt(anim.animation.destination, F(0))
  /\ FGt(anim.animation.origin, F(0))
  /\ FLt(anim.animation.origin, F(10))

\* the maps of C18 on f32: the identity and v -> 2 * v
IdentityMap == [v \in f32Values |-> float_value(v)]
DoubleMap == [v \in f32Values |-> FMul(F(2), float_value(v))]

\* the times ahead of the clock at which a caller samples
AheadTimes == { now + 500 * k : k \in 0 .. MaxAhead }

\* C18: on Animated<f32>, after any sequence of transitions, animate(m, t)
\* is m applied to the eased scalar progress
\* origin + eased_unit_progress(t) * (destination - origin), for m the
\* identity and for m = v -> 2 * v; on Animated<bool>, animate_bool(a, b, t)
\* is the linear blend of a and b at the eased scalar progress.
C18_AnimateIsMapOfProgress ==
  \A t \in AheadTimes :
    LET p == eased_progress(anim, t)
    IN /\ anim.value \in f32Values
            => /\ animate(anim, IdentityMap, t) = p
               /\ animate(anim, DoubleMap, t) = FMul(F(2), p)
       /\ anim.value \in bool
            => animate_bool(anim, F(5), F(25), t) = interpolated(F(5), F(25), p)

\* C18 witness: a transition of an Animated<f32> was interrupted in flight,
\* so the stored origin lies between the previous value and the new one
C18_Witness ==
  /\ anim.value \in f32Values
  /\ op.arm = "interrupt"
  /\ in_progress(anim, now)
  /\ FNe(anim.animation.origin, float_value(anim.last_value))
  /\ FNe(anim.animation.origin, float_value(anim.value))

\* the Animated is as Animated::new returned it: no builder has been applied
\* and no transition has been requested
FreshlyConstructed ==
  /\ op.call = "new"
  /\ anim = AnimatedNew(anim.value)

\* C19: a freshly constructed Animated::new(v) is settled: in_progress is
\* false at every time, animate(map, t) is map(v), the previous value is v,
\* origin and destination are v.float_value(), and the configuration is
\* 100 ms, ease-in-out, no delay, one repetition, no auto-reverse, no
\* repeat-forever, no asymmetric settings and no transition time.
C19_FreshIsSettled ==
  LET a == anim.animation
      map == [v \in ValuesOf(anim.value) |-> FAdd(FMul(F(3), float_value(v)), F(1))]
  IN FreshlyConstructed
       => /\ \A t \in SampleTimes :
               /\ ~in_progress(anim, t)
               /\ animate(anim, map, t) = map[anim.value]
          /\ anim.last_value = anim.value
          /\ a.origin = float_value(anim.value)
          /\ a.destination = float_value(anim.value)
          /\ a.settings = [duration_ms |-> F(100), easing |-> "EaseInOut"]
          /\ a.delay_ms = F(0)
          /\ a.repetitions = 1
          /\ ~a.auto_reverse_repetitions
          /\ ~a.repeat_forever
          /\ a.asymmetric_settings = None
          /\ a.transition_time = None

\* C19 witness: Animated::new(-10.) before any call
C19_Witness ==
  /\ FreshlyConstructed
  /\ anim.value = f32(-10)
  /\ now = 0

\* the last call was in_progress, animate, animate_if_eq or animate_bool
SamplingCall(o) == o.call = "sample"

PositiveDurations(a) ==
  /\ FGt(a.settings.duration_ms, F(0))
  /\ FGt(Asymmetry(a).duration_ms, F(0))

\* x lies between the two ends, ends included
Between(x, one_end, other_end) ==
  \/ FLe(one_end, x) /\ FLe(x, other_end)
  \/ FLe(other_end, x) /\ FLe(x, one_end)

\* C21: with positive durations the linear unit progress of every sample lies
\* in [0, 1], so the linear progress, and the eased progress under linear
\* easing, lies between the origin and the destination, ends included.
C21_UnitProgressBounded ==
  LET a == anim.animation
  IN PositiveDurations(a) =>
       \A t \in SampleTimes :
         LET p == current_progress(a, t)
             linear == FAdd(a.origin, FMul(p.linear_unit_progress, progress_range(a)))
             eased == FAdd(a.origin, FMul(p.eased_unit_progress, progress_range(a)))
         IN /\ FLe(F(0), p.linear_unit_progress)
            /\ FLe(p.linear_unit_progress, F(1))
            /\ Between(linear, a.origin, a.destination)
            /\ (a.settings.easing = "Linear" /\ Asymmetry(a).easing = "Linear")
                 => Between(eased, a.origin, a.destination)

\* a reverse leg under way, sampled strictly inside the unit interval
C21_Witness ==
  LET a == anim.animation
  IN /\ a.transition_time # None
     /\ a.auto_reverse_repetitions
     /\ PositiveDurations(a)
     /\ FNe(a.origin, a.destination)
     /\ CurrentSettings(a, Elapsed(a, now)).auto_reversing
     /\ FLt(F(0), linear_unit_progress(a, now))
     /\ FLt(linear_unit_progress(a, now), F(1))

\* the map of animate that takes a value to its float representation
FloatMap == [v \in ValuesOf(anim.value) |-> float_value(v)]

\* C22: a transition whose destination equals the origin it is re-based to
\* (an interruption at the instant the eased progress is the new destination)
\* is complete at once: in_progress is false from the interrupt instant on,
\* and animate divides no ratio by the zero range.
C22_ZeroRangeShortCircuits ==
  (TimedTransitionStarted /\ FEq(anim.animation.origin, anim.animation.destination))
    => \A t \in AheadTimes :
         /\ ~in_progress(anim, t)
         /\ IsFinite(animate(anim, FloatMap, t))

\* C23: a sample taken before the start of the transition is taken at an
\* elapsed time of zero: for a positive total duration and easings with
\* value(0) = 0, at every time t with t.elapsed_since(start) < 0 the linear
\* and the eased progress are the origin and in_progress(t) is true.
C23_BeforeStartClamps ==
  LET a == anim.animation
  IN ( /\ a.transition_time # None
       /\ EasingsStartAtZero(a)
       /\ FGt(total_duration(a), F(0)) )
       => \A t \in SampleTimes :
            FLt(elapsed_since(t, Unwrap(a.transition_time)), F(0))
              => /\ FEq(linear_progress(anim, t), a.origin)
                 /\ FEq(eased_progress(anim, t), a.origin)
                 /\ in_progress(anim, t)

\* C24: every u32 repetition count is accepted: with auto_reverse() and any
\* repeat(count), counts of 2^31 and above included, (repetitions * 2) + 1
\* stays within the u32 range, so no call of transition, in_progress or
\* animate panics or computes with a wrapped count.
C24_EveryCountAccepted ==
  /\ op.arm \notin {"panic", "wrap"}
  /\ op.arm = "interrupt" => ~TrueRepetitionsOverflows(anim.animation)

\* the settings pair in force at a sample of a started transition
ActiveSettings(a, time) == CurrentSettings(a, Elapsed(a, time)).settings

\* the animation of test_animate_with_custom_easing: 0 -> 10 over 1000 ms
\* with Easing::Custom(|x| x * x), started at t = 0
CustomSquareZeroToTen ==
  anim.animation =
    [ easing(duration(AnimatedNew(0), F(1000)), "CustomSquare").animation EXCEPT
        !.destination = F(10), !.transition_time = Some(0) ]

C26_OptionInterpolated ==
  op.call = "interpolated" =>
    /\ (op.self # None /\ op.other # None)
         => op.result = Some(interpolated(Unwrap(op.self), Unwrap(op.other), op.ratio))
    /\ (op.self = None \/ op.other = None) => op.result = None
    /\ (op.self = Some(F(0)) /\ op.other = Some(F(10)) /\ op.ratio = Frac(1, 4))
         => op.result = Some(Frac(5, 2))

\* one side is present, the other is not, and the ratio selects the present side
C26_Witness ==
  /\ op.call = "interpolated"
  /\ op.self = Some(F(10))
  /\ op.other = None
  /\ op.ratio = F(0)
  /\ op.result = None

\* a map of animate that tells every two values of the domain type apart
DistinctMap == [v \in ValuesOf(anim.value) |-> F(v)]

\* every easing of the configuration has value(1) = 1
EasingsEndAtOne(a) ==
  /\ FEq(EasingValue(a.settings.easing, F(1)), F(1))
  /\ FEq(EasingValue(Asymmetry(a).easing, F(1)), F(1))

\* C27: after the last of any sequence of transition and
\* transition_instantaneous calls on an animation that does not repeat
\* forever and whose easings have value(1) = 1, at every time at least the
\* delay plus the total duration after that call in_progress is false and
\* animate(map, t) is map(value) for the value requested last, also when two
\* distinct values of the domain type share a float_value.
C27_EventualConvergence ==
  LET a == anim.animation
  IN ( /\ op.call \in {"transition", "transition_instantaneous"}
       /\ ~a.repeat_forever
       /\ EasingsEndAtOne(a) )
       => \A t \in SampleTimes :
            FGe(elapsed_since(t, now), FAdd(a.delay_ms, total_duration(a)))
              => /\ ~in_progress(anim, t)
                 /\ animate(anim, DistinctMap, t) = DistinctMap[anim.value]

\* the last of the sample times
LastSample == 250 * MaxSample

AutoReverseStarted ==
  /\ anim.animation.transition_time # None
  /\ anim.animation.auto_reverse_repetitions
  /\ PositiveDurations(anim.animation)

\* the time elapsed within the current cycle of D + A
ElapsedInCycle(a, time) ==
  FRem(Elapsed(a, time), FAdd(a.settings.duration_ms, Asymmetry(a).duration_ms))

\* the length D + A of a cycle, in ms
CycleMs(a) == FAdd(a.settings.duration_ms, Asymmetry(a).duration_ms)[1]

\* C29: with auto-reverse a cycle lasts D + A, A the asymmetric duration or
\* D without asymmetric settings: samples in progress a cycle apart are
\* equal; inside the forward leg (elapsed_in_cycle < D) the main settings
\* apply and the unit progress is elapsed_in_cycle / D; inside the reverse
\* leg (elapsed_in_cycle > D) the asymmetric settings, or the main ones in
\* their absence, apply and the unit progress is
\* 1 - (elapsed_in_cycle - D) / A, so the linear progress runs from the
\* destination back to the origin.  The instant elapsed_in_cycle = D is
\* the subject of C30.
C29_AutoReverseCycle ==
  LET a == anim.animation
      D == a.settings.duration_ms
      A == Asymmetry(a).duration_ms
  IN AutoReverseStarted =>
       \A t \in SampleTimes :
         LET in_cycle == ElapsedInCycle(a, t)
             p == current_progress(a, t)
             next_cycle == current_progress(a, t + CycleMs(a))
             back == FDiv(FSub(in_cycle, D), A)
         IN ~p.complete =>
              /\ FLt(in_cycle, D)
                   => /\ ActiveSettings(a, t) = a.settings
                      /\ p.linear_unit_progress = FDiv(in_cycle, D)
              /\ FGt(in_cycle, D)
                   => /\ ActiveSettings(a, t) = Asymmetry(a)
                      /\ p.linear_unit_progress = FSub(F(1), back)
                      /\ FAdd(a.origin, FMul(p.linear_unit_progress, progress_range(a)))
                           = FSub(a.destination, FMul(back, progress_range(a)))
              /\ (FGe(elapsed_since(t, Unwrap(a.transition_time)), a.delay_ms)
                    /\ ~next_cycle.complete)
                   => next_cycle = p

\* the reverse leg of an auto-reversing transition with asymmetric settings
\* is sampled strictly between its ends
C29_Witness ==
  LET a == anim.animation
  IN /\ AutoReverseStarted
     /\ a.asymmetric_settings # None
     /\ FNe(a.origin, a.destination)
     /\ in_progress(anim, now + 1000)
     /\ FGt(ElapsedInCycle(a, now + 1000), a.settings.duration_ms)
     /\ FLt(F(0), linear_unit_progress(a, now + 1000))
     /\ FLt(linear_unit_progress(a, now + 1000), F(1))

\* the animation of test_auto_reversal with linear easing on a bool:
\* false -> true (0 -> 1) over 1000 ms with repeat(1) and auto_reverse(),
\* started at t = 0
AutoReverseFalseToTrueAtZero ==
  anim.animation =
    [ auto_reverse(repeat(Linear1000(AnimatedNew(BoolOf(FALSE))), 1)).animation EXCEPT
        !.destination = F(1), !.transition_time = Some(0) ]

\* C30: with auto-reverse, at the instant a forward leg ends while the
\* animation is still in progress (elapsed after the delay mod (D + A) = D)
\* the linear unit progress is 0 and the linear progress is the origin, not
\* the destination; 0 -> 1 over 1000 ms samples 0 at t = 1000.
C30_ForwardLegEndWraps ==
  LET a == anim.animation
  IN /\ AutoReverseStarted
          => \A t \in SampleTimes :
               (FEq(ElapsedInCycle(a, t), a.settings.duration_ms)
                  /\ in_progress(anim, t))
                 => /\ FEq(linear_unit_progress(a, t), F(0))
                    /\ FEq(linear_progress(anim, t), a.origin)
     /\ AutoReverseFalseToTrueAtZero => FEq(linear_progress(anim, 1000), F(0))

\* the clock stands at the end of a forward leg of a transition between two
\* different values, and the sample there is the origin
C30_Witness ==
  LET a == anim.animation
  IN /\ AutoReverseStarted
     /\ FNe(a.origin, a.destination)
     /\ in_progress(anim, now)
     /\ FEq(ElapsedInCycle(a, now), a.settings.duration_ms)
     /\ FEq(linear_progress(anim, now), a.origin)

\* C31: when Animated::transition to a different value is called at a time at
\* which no transition is in progress (none was started, or the previous one
\* is complete at that time), the new origin is the linear progress at that
\* time, which is the previous destination, and the start time becomes the
\* time of the call.
C31_RestartFromDestination ==
  [][ ( /\ op'.call = "transition"
        /\ op'.arm # "panic"
        /\ anim'.value # anim.value
        /\ ~in_progress(anim, now) )
        => /\ FEq(anim'.animation.origin, linear_progress(anim, now))
           /\ FEq(anim'.animation.origin, anim.animation.destination)
           /\ anim'.animation.transition_time = Some(now) ]_vars

\* C32: when Animated::transition stores a distinct value whose float_value
\* equals the destination the state machine already has, the call is treated
\* as starting fresh: the origin becomes the linear progress at the call time
\* and the start time becomes the call time.
C32_SameDestinationStartsFresh ==
  [][ ( /\ op'.call = "transition"
        /\ op'.arm # "panic"
        /\ anim'.value # anim.value
        /\ FEq(float_value(anim'.value), anim.animation.destination) )
        => /\ FEq(anim'.animation.origin, linear_progress(anim, now))
           /\ anim'.animation.transition_time = Some(now) ]_vars

\* configurations in which the main or the asymmetric duration is 0
ConfigureZero(an) ==
  { duration(an, F(0)),
    auto_reverse(duration(an, F(0))),
    auto_reverse(asymmetric_duration(easing(duration(an, F(0)), "Linear"), F(1000))),
    repeat(asymmetric_duration(easing(duration(an, F(0)), "Linear"), F(1000)), 2),
    repeat(asymmetric_duration(Linear1000(an), F(0)), 2),
    repeat_forever(duration(an, F(0))) }

InitZero ==
  anim \in UNION { ConfigureZero(AnimatedNew(v)) : v \in bool } /\ Start

SpecZero == InitZero /\ [][Next]_vars

\* the divisor of elapsed % combined_durations
combined_durations(a) ==
  FAdd(a.settings.duration_ms, Asymmetry(a).duration_ms)

\* the divisor of elapsed_current / settings.duration_ms
RepeatDivisor(a, time) ==
  CurrentSettings(a, Elapsed(a, time)).settings.duration_ms

\* elapsed % combined_durations is evaluated in the auto-reverse arm of a
\* started transition
RemainderEvaluated(a) ==
  a.transition_time # None /\ a.auto_reverse_repetitions

\* elapsed_current / settings.duration_ms is evaluated once the zero-total
\* guard has been passed
DivisionEvaluated(a) ==
  a.transition_time # None /\ FNe(total_duration(a), F(0))

\* C33: in a configuration whose main or asymmetric duration is 0, the
\* divisor of every elapsed % combined_durations and of every
\* elapsed_current / settings.duration_ms that current_progress evaluates is
\* non-zero, and when both durations are 0 the sample of a started transition
\* is the destination with in_progress false.
C33_NoZeroDivisor ==
  LET a == anim.animation
  IN ( FEq(a.settings.duration_ms, F(0)) \/ FEq(Asymmetry(a).duration_ms, F(0)) )
       => \A t \in SampleTimes :
            /\ RemainderEvaluated(a) => FNe(combined_durations(a), F(0))
            /\ DivisionEvaluated(a) => FNe(RepeatDivisor(a, t), F(0))
            /\ ( /\ a.transition_time # None
                 /\ FEq(a.settings.duration_ms, F(0))
                 /\ FEq(Asymmetry(a).duration_ms, F(0)) )
                 => /\ FEq(AnimationLinearProgress(a, t), a.destination)
                    /\ ~AnimationInProgress(a, t)

\* A chain of builder calls on a freshly constructed Animated<bool, Time>.
\* op.chain lists the calls made so far, each a record of the method's name
\* and its argument (the unused argument fields hold a filler).
BuilderCall(name, f, e, n, x, at) ==
  [ name |-> name, f |-> f, e |-> e, n |-> n, x |-> x, at |-> at ]

DurationCalls ==
  { BuilderCall("duration", f, "Linear", 0, BoolOf(FALSE), 0) :
      f \in {F(250), F(1000)} }

EasingCalls ==
  { BuilderCall("easing", F(0), e, 0, BoolOf(FALSE), 0) :
      e \in {"Linear", "EaseOutQuad"} }

RepeatCalls ==
  { BuilderCall("repeat", F(0), "Linear", n, BoolOf(FALSE), 0) : n \in {1, 2} }

AutoReverseCalls ==
  { BuilderCall("auto_reverse", F(0), "Linear", 0, BoolOf(FALSE), 0) }

AutoStartCalls ==
  { BuilderCall("auto_start", F(0), "Linear", 0, x, at) :
      x \in bool, at \in {0, 250} }

AsymmetricDurationCalls ==
  { BuilderCall("asymmetric_duration", f, "Linear", 0, BoolOf(FALSE), 0) :
      f \in {F(500), F(2000)} }

AsymmetricEasingCalls ==
  { BuilderCall("asymmetric_easing", F(0), e, 0, BoolOf(FALSE), 0) :
      e \in {"EaseInQuad", "EaseInOut"} }

\* the builder method a call names, applied to an Animated
Apply(an, c) ==
  CASE c.name = "duration" -> duration(an, c.f)
    [] c.name = "easing" -> easing(an, c.e)
    [] c.name = "repeat" -> repeat(an, c.n)
    [] c.name = "auto_reverse" -> auto_reverse(an)
    [] c.name = "auto_start" -> auto_start(an, c.x, c.at)
    [] c.name = "asymmetric_duration" -> asymmetric_duration(an, c.f)
    [] c.name = "asymmetric_easing" -> asymmetric_easing(an, c.e)

RECURSIVE Chained(_, _)
\* the Animated a chain of builder calls returns
Chained(an, chain) ==
  IF chain = <<>> THEN an ELSE Chained(Apply(an, Head(chain)), Tail(chain))

InitBuilder ==
  /\ \E v \in bool :
       /\ anim = AnimatedNew(v)
       /\ op = [ call |-> "new", arm |-> "none", chain |-> <<>>, initial |-> v ]
  /\ now = 0

\* one more builder call on the value the chain has returned so far; each
\* method is called at most once per chain
Build(c) ==
  /\ Len(op.chain) < MaxChain
  /\ \A i \in 1 .. Len(op.chain) : op.chain[i].name # c.name
  /\ anim' = Apply(anim, c)
  /\ op' = [ op EXCEPT !.call = c.name, !.chain = Append(op.chain, c) ]
  /\ now' = now

\* chains that configure and start: duration, repeat, auto_reverse, auto_start
NextAutoStart ==
  \/ \E c \in DurationCalls : Build(c)
  \/ \E c \in RepeatCalls : Build(c)
  \/ \E c \in AutoReverseCalls : Build(c)
  \/ \E c \in AutoStartCalls : Build(c)

SpecAutoStart == InitBuilder /\ [][NextAutoStart]_vars

\* chains that set the main and the asymmetric settings
NextAsymmetric ==
  \/ \E c \in DurationCalls : Build(c)
  \/ \E c \in EasingCalls : Build(c)
  \/ \E c \in AsymmetricDurationCalls : Build(c)
  \/ \E c \in AsymmetricEasingCalls : Build(c)

SpecAsymmetric == InitBuilder /\ [][NextAsymmetric]_vars

\* the chain with its i-th call moved to the end
MovedLast(chain, i) ==
  SubSeq(chain, 1, i - 1) \o SubSeq(chain, i + 1, Len(chain)) \o <<chain[i]>>

\* what the sampling calls return at a time
Samples(an, time) ==
  [ in_progress |-> in_progress(an, time),
    linear_progress |-> linear_progress(an, time),
    eased_progress |-> eased_progress(an, time),
    animate_bool |-> animate_bool(an, F(0), F(10), time) ]

\* new(false).duration(1000.).auto_start(true, 0.).repeat(2).auto_reverse()
AutoStartedThenConfigured ==
  /\ op.initial = BoolOf(FALSE)
  /\ op.chain = << BuilderCall("duration", F(1000), "Linear", 0, BoolOf(FALSE), 0),
                   BuilderCall("auto_start", F(0), "Linear", 0, BoolOf(TRUE), 0),
                   BuilderCall("repeat", F(0), "Linear", 2, BoolOf(FALSE), 0),
                   BuilderCall("auto_reverse", F(0), "Linear", 0, BoolOf(FALSE), 0) >>

\* C34: on a freshly constructed Animated, a chain of builder calls with
\* auto_start somewhere in it returns the same origin, destination and start
\* time, and the same samples at every time, as the chain with auto_start
\* moved behind every other call; the chain
\* new(false).duration(1000.).auto_start(true, 0.).repeat(2).auto_reverse()
\* samples 0.5 at 500, 1500, 2500 and 3500, is in progress at 3500 and
\* samples 0 at 4000.
C34_AutoStartOrderIrrelevant ==
  /\ \A i \in 1 .. Len(op.chain) :
       op.chain[i].name = "auto_start" =>
         LET late == Chained(AnimatedNew(op.initial), MovedLast(op.chain, i))
         IN /\ late.animation.origin = anim.animation.origin
            /\ late.animation.destination = anim.animation.destination
            /\ late.animation.transition_time = anim.animation.transition_time
            /\ \A t \in SampleTimes : Samples(late, t) = Samples(anim, t)
  /\ AutoStartedThenConfigured =>
       /\ \A t \in {500, 1500, 2500, 3500} : linear_progress(anim, t) = Half
       /\ in_progress(anim, 3500)
       /\ linear_progress(anim, 4000) = F(0)

\* auto_start(true, 0.) was the first call on new(false) and repeat and
\* auto_reverse followed it: the transition it started is running
C34_Witness ==
  /\ op.initial = BoolOf(FALSE)
  /\ Len(op.chain) >= 3
  /\ op.chain[1].name = "auto_start"
  /\ op.chain[1].x = BoolOf(TRUE)
  /\ \E i, j \in 2 .. Len(op.chain) :
       op.chain[i].name = "repeat" /\ op.chain[j].name = "auto_reverse"
  /\ anim.animation.transition_time = Some(0)
  /\ in_progress(anim, 3500)
  /\ linear_progress(anim, 500) # linear_progress(anim, 4000)

\* the call a chain ends with
LastCall(chain) == chain[Len(chain)]

\* asymmetric_duration and asymmetric_easing applied in either order give the
\* same Animated
AsymmetricBuildersCommute(an) ==
  \A d \in AsymmetricDurationCalls, e \in AsymmetricEasingCalls :
    Apply(Apply(an, d), e) = Apply(Apply(an, e), d)

\* new(..).duration(1000.).easing(Easing::Linear).asymmetric_duration(2000.)
\* .asymmetric_easing(Easing::EaseInOut)
AsymmetricTestChain ==
  << BuilderCall("duration", F(1000), "Linear", 0, BoolOf(FALSE), 0),
     BuilderCall("easing", F(0), "Linear", 0, BoolOf(FALSE), 0),
     BuilderCall("asymmetric_duration", F(2000), "Linear", 0, BoolOf(FALSE), 0),
     BuilderCall("asymmetric_easing", F(0), "EaseInOut", 0, BoolOf(FALSE), 0) >>

\* C35: asymmetric_duration(d) sets the asymmetric duration to d and
\* asymmetric_easing(e) the asymmetric easing to e; each keeps the other
\* asymmetric field when asymmetric settings exist and otherwise copies it
\* from the main settings as they are at the call, and neither touches the
\* main settings.  The two builders commute, and a call to easing() or
\* duration() leaves asymmetric settings that exist as they are.
C35_AsymmetricBuilders ==
  [][ LET before == anim.animation
          after == anim'.animation
          c == LastCall(op'.chain)
      IN /\ c.name = "asymmetric_duration" =>
              /\ after.asymmetric_settings # None
              /\ Unwrap(after.asymmetric_settings).duration_ms = c.f
              /\ Unwrap(after.asymmetric_settings).easing =
                   IF before.asymmetric_settings # None
                   THEN Unwrap(before.asymmetric_settings).easing
                   ELSE before.settings.easing
              /\ after.settings = before.settings
         /\ c.name = "asymmetric_easing" =>
              /\ after.asymmetric_settings # None
              /\ Unwrap(after.asymmetric_settings).easing = c.e
              /\ Unwrap(after.asymmetric_settings).duration_ms =
                   IF before.asymmetric_settings # None
                   THEN Unwrap(before.asymmetric_settings).duration_ms
                   ELSE before.settings.duration_ms
              /\ after.settings = before.settings
         /\ c.name \in {"duration", "easing"} =>
              after.asymmetric_settings = before.asymmetric_settings
         /\ AsymmetricBuildersCommute(anim) /\ AsymmetricBuildersCommute(anim')
         /\ op'.chain = AsymmetricTestChain =>
              /\ after.settings = [ duration_ms |-> F(1000), easing |-> "Linear" ]
              /\ after.asymmetric_settings =
                   Some([ duration_ms |-> F(2000), easing |-> "EaseInOut" ]) ]_vars

\* asymmetric_easing was called after asymmetric_duration and a later call to
\* easing() and to duration() gave the main settings another easing and
\* another duration than the asymmetric ones hold
C35_Witness ==
  /\ anim.animation.asymmetric_settings # None
  /\ Unwrap(anim.animation.asymmetric_settings).easing # anim.animation.settings.easing
  /\ Unwrap(anim.animation.asymmetric_settings).duration_ms
       # anim.animation.settings.duration_ms
  /\ \E i, j, k \in 1 .. Len(op.chain) :
       /\ i < j /\ j < k
       /\ op.chain[i].name = "asymmetric_duration"
       /\ op.chain[j].name = "asymmetric_easing"
       /\ op.chain[k].name \in {"duration", "easing"}

(***************************************************************************)
(* The tick-driven Animation<Time, Value> of src/src/animation.rs, with    *)
(* Value = f32 and Time = f32 (elapsed_since is the difference).  The      *)
(* square root of a square in magnitude is the absolute value.             *)
(***************************************************************************)
\* The f32 operations on fractions that repeated re-basing has made long:
\* the same results as FAdd, FMul, FDiv and FLt, with the common factors
\* cancelled before the multiplication.
FAddLong(a, b) ==
  IF IsFinite(a) /\ IsFinite(b)
  THEN LET g == Gcd(a[2], b[2])
       IN Norm(a[1] * (b[2] \div g) + b[1] * (a[2] \div g), (a[2] \div g) * b[2])
  ELSE FAdd(a, b)

FSubLong(a, b) == FAddLong(a, FNeg(b))

FMulLong(a, b) ==
  IF IsFinite(a) /\ IsFinite(b)
  THEN LET g == Gcd(Abs(a[1]), b[2])
           h == Gcd(Abs(b[1]), a[2])
       IN <<(a[1] \div g) * (b[1] \div h), (a[2] \div h) * (b[2] \div g)>>
  ELSE FMul(a, b)

FDivLong(a, b) ==
  IF IsFinite(a) /\ IsFinite(b) /\ b[1] # 0
  THEN LET g == Gcd(Abs(a[1]), Abs(b[1]))
           h == Gcd(a[2], b[2])
       IN <<Sgn(b[1]) * (a[1] \div g) * (b[2] \div h),
            (a[2] \div h) * (Abs(b[1]) \div g)>>
  ELSE FDiv(a, b)

FLtLong(a, b) ==
  IF IsFinite(a) /\ IsFinite(b)
  THEN LET g == Gcd(a[2], b[2])
       IN a[1] * (b[2] \div g) < b[1] * (a[2] \div g)
  ELSE FLt(a, b)

FGeLong(a, b) == FLtLong(b, a) \/ FEq(b, a)

\* impl AnimatableValue for f32
diff(self, other) == FSubLong(self, other)

sum(self, other) == FAddLong(self, other)

scale(self, amount) == FMulLong(self, amount)

magnitude(self) ==
  IF IsNaN(self) THEN NaN ELSE <<Abs(self[1]), self[2]>>

normalized(self) == FDivLong(self, magnitude(self))

distance(self, other) == magnitude(diff(self, other))

\* Timing::timing
timing(t, x) ==
  CASE t = "EaseIn" -> FSub(F(1), CosPi(FDiv(x, F(2))))
    [] t = "EaseOut" -> SinPi(FDiv(x, F(2)))
    [] t = "EaseInOut" -> FDiv(FNeg(FSub(CosPi(x), F(1))), F(2))
    [] t = "EaseInQuint" -> FMul(FMul(FMul(FMul(x, x), x), x), x)
    [] t = "EaseOutQuint" -> FSub(F(1), FPowi(FSub(F(1), x), 5))
    [] OTHER -> x

\* Animation::new
new(position, duration_ms, t) ==
  [ position |-> position,
    duration_ms |-> duration_ms,
    timing |-> t,
    animation_state |-> None ]

animating(self) == self.animation_state # None

timed_progress(self) ==
  IF self.animation_state # None
     /\ FNe(Unwrap(self.animation_state).destination,
            Unwrap(self.animation_state).origin)
  THEN LET animation == Unwrap(self.animation_state)
           progress_in_animation == distance(self.position, animation.origin)
           range_of_animation == distance(animation.destination, animation.origin)
           completion == FDivLong(progress_in_animation, range_of_animation)
           animation_range == diff(animation.destination, animation.origin)
       IN sum(animation.origin,
              scale(animation_range, timing(self.timing, completion)))
  ELSE self.position

\* an interruption that starts from the position the ticks have reached
TransitionFromPosition(self, destination, time) ==
  IF self.animation_state # None
  THEN LET animation == Unwrap(self.animation_state)
       IN [ self EXCEPT
              !.animation_state =
                Some([ animation EXCEPT
                         !.speed_at_interrupt =
                           IF animation.speed_at_interrupt = None
                           THEN Some(FDivLong(distance(animation.destination,
                                                   animation.origin),
                                          self.duration_ms))
                           ELSE animation.speed_at_interrupt,
                         !.origin = self.position,
                         !.destination = destination ]) ]
  ELSE [ self EXCEPT
           !.animation_state =
             Some([ started_time |-> time,
                    last_tick_time |-> time,
                    origin |-> self.position,
                    destination |-> destination,
                    speed_at_interrupt |-> None ]) ]

\* Animation::transition
transition(self, destination, time) ==
  LET progress == timed_progress(self)
  IN IF self.animation_state # None
     THEN LET animation == Unwrap(self.animation_state)
          IN [ self EXCEPT
                 !.position = progress,
                 !.animation_state =
                   Some([ animation EXCEPT
                            !.speed_at_interrupt =
                              IF animation.speed_at_interrupt = None
                              THEN Some(FDivLong(distance(animation.destination,
                                                      animation.origin),
                                             self.duration_ms))
                              ELSE animation.speed_at_interrupt,
                            !.origin = progress,
                            !.destination = destination ]) ]
     ELSE [ self EXCEPT
              !.animation_state =
                Some([ started_time |-> time,
                       last_tick_time |-> time,
                       origin |-> self.position,
                       destination |-> destination,
                       speed_at_interrupt |-> None ]) ]

\* the position_delta a tick at a time computes for an active animation
position_delta(self, time) ==
  LET animation == Unwrap(self.animation_state)
      elapsed == elapsed_since(time, animation.last_tick_time)
  IN IF animation.speed_at_interrupt # None
     THEN LET direction == normalized(diff(animation.destination, self.position))
          IN scale(direction, FMulLong(elapsed, Unwrap(animation.speed_at_interrupt)))
     ELSE LET delta == FDivLong(elapsed, self.duration_ms)
              direction == diff(animation.destination, animation.origin)
          IN scale(direction, delta)

\* the finished flag of a tick at a time on an active animation
finished(self, time) ==
  IF FEq(self.duration_ms, F(0)) THEN TRUE
  ELSE FGeLong(magnitude(position_delta(self, time)),
           distance(self.position, Unwrap(self.animation_state).destination))

\* a tick that ends the animation where the last step has carried the position
TickOvershoots(self, time) ==
  IF self.animation_state # None
  THEN LET animation == Unwrap(self.animation_state)
           moved == IF FEq(self.duration_ms, F(0)) THEN self.position
                    ELSE sum(self.position, position_delta(self, time))
       IN IF finished(self, time)
          THEN [ self |-> [ self EXCEPT !.position = moved,
                                        !.animation_state = None ],
                 returned |-> TRUE ]
          ELSE [ self |-> [ self EXCEPT
                              !.position = moved,
                              !.animation_state =
                                Some([ animation EXCEPT !.last_tick_time = time ]) ],
                 returned |-> TRUE ]
  ELSE [ self |-> self, returned |-> FALSE ]

\* Animation::tick: the Animation it leaves and the bool it returns
tick(self, time) ==
  IF self.animation_state # None
  THEN LET animation == Unwrap(self.animation_state)
           moved == IF FEq(self.duration_ms, F(0)) THEN self.position
                    ELSE sum(self.position, position_delta(self, time))
       IN IF finished(self, time)
          THEN [ self |-> [ self EXCEPT !.position = animation.destination,
                                        !.animation_state = None ],
                 returned |-> TRUE ]
          ELSE [ self |-> [ self EXCEPT
                              !.position = moved,
                              !.animation_state =
                                Some([ animation EXCEPT !.last_tick_time = time ]) ],
                 returned |-> TRUE ]
  ELSE [ self |-> self, returned |-> FALSE ]

\* the positions an Animation is constructed at and sent to
Positions == { F(0), F(5), F(10) }

InitTicked ==
  /\ \E position \in { F(0), F(10) }, duration_ms \in { F(0), F(250), F(500) },
        t \in { "Linear", "EaseInOut" } :
       anim = new(position, duration_ms, t)
  /\ now = 0
  /\ op = [ call |-> "new", arm |-> "none", destination |-> F(0) ]

\* a call of transition at the caller's clock
CallTransition(destination) ==
  /\ anim' = transition(anim, destination, now)
  /\ op' = [ call |-> "transition",
             arm |-> IF animating(anim) THEN "interrupt" ELSE "start",
             destination |-> destination ]
  /\ now' = now

\* the instants at which the caller ticks
TickTimes == { 0, 250, 500 }

\* a call of tick at an instant not before the caller's clock
CallTick(time) ==
  /\ time >= now
  /\ now' = time
  /\ anim' = tick(anim, time).self
  /\ op' = [ call |-> "tick",
             arm |-> IF tick(anim, time).returned THEN "true" ELSE "false",
             destination |-> op.destination ]

NextTicked ==
  \/ \E destination \in Positions : CallTransition(destination)
  \/ \E time \in TickTimes : CallTick(time)

SpecTicked == InitTicked /\ [][NextTicked]_vars

C37_InterruptRebases ==
  [][ ( op'.call = "transition" /\ animating(anim) )
        => /\ animating(anim')
           /\ Unwrap(anim'.animation_state).origin = timed_progress(anim)
           /\ anim'.position = timed_progress(anim)
           /\ Unwrap(anim'.animation_state).destination = op'.destination
           /\ timed_progress(anim') = timed_progress(anim) ]_vars

\* an EaseInOut animation was interrupted where its timed progress differs
\* from the position its ticks had reached: the quarter of the way to 10
\* that the position had covered is eased to 25/17
C37_Witness ==
  /\ op.call = "transition"
  /\ op.arm = "interrupt"
  /\ anim.timing = "EaseInOut"
  /\ animating(anim)
  /\ anim.position = Frac(25, 17)
  /\ Unwrap(anim.animation_state).origin = Frac(25, 17)
  /\ Unwrap(anim.animation_state).destination = F(0)

\* the sign of the way from a position to a destination
Toward(position, destination) ==
  IF FLtLong(position, destination) THEN F(1)
  ELSE IF FLtLong(destination, position) THEN F(-1) ELSE F(0)

\* C38: the first interruption of an animation sets speed_at_interrupt to
\* distance(destination, origin) / duration_ms of the animation it
\* interrupts and later interruptions keep it; a tick on an interrupted
\* animation of non-zero duration moves the position toward the destination
\* by elapsed * speed, and onto the destination when that step is at least
\* the distance left.
C38_InterruptKeepsSpeed ==
  [][ /\ ( op'.call = "transition" /\ animating(anim) )
           => Unwrap(anim'.animation_state).speed_at_interrupt =
                IF Unwrap(anim.animation_state).speed_at_interrupt = None
                THEN Some(FDivLong(distance(Unwrap(anim.animation_state).destination,
                                            Unwrap(anim.animation_state).origin),
                                   anim.duration_ms))
                ELSE Unwrap(anim.animation_state).speed_at_interrupt
      /\ ( /\ op'.call = "tick"
           /\ animating(anim)
           /\ Unwrap(anim.animation_state).speed_at_interrupt # None
           /\ FNe(anim.duration_ms, F(0))
           /\ IsFinite(anim.position)
           /\ IsFinite(Unwrap(Unwrap(anim.animation_state).speed_at_interrupt)) )
           => LET animation == Unwrap(anim.animation_state)
                  step == FMulLong(elapsed_since(now', animation.last_tick_time),
                                   Unwrap(animation.speed_at_interrupt))
                  left == distance(anim.position, animation.destination)
              IN anim'.position =
                   IF FGeLong(step, left) THEN animation.destination
                   ELSE sum(anim.position,
                            scale(Toward(anim.position, animation.destination),
                                  step)) ]_vars

====
